---- MODULE Spec2Model ----
(***************************************************************************)
(* A model of the node-replication benchmark harness:                      *)
(*   - the synthetic AbstractDataStructure (benches/synthetic.rs),         *)
(*   - the workload generators (benches/synthetic.rs, benches/hashmap.rs), *)
(*   - the scale-out step functions (benches/criterion.rs, hashmap.rs),    *)
(*   - the log-only step function (benches/criterion.rs),                  *)
(*   - the measurement harness and the statistics                          *)
(*     (bench_utils/src/benchmark.rs).                                     *)
(* usize is modelled as the integers modulo Word = 2^WordBits.  A build    *)
(* with debug assertions checks debug_assert! and panics on arithmetic     *)
(* overflow; a build without them skips the former and wraps on the latter.*)
(***************************************************************************)
EXTENDS Integers, Sequences, FiniteSets, TLC

VARIABLES
    debug_assertions, \* cfg!(debug_assertions): the build profile
    adsPc,            \* "new" | "ready" | "panic"
    newArgs,          \* the arguments AbstractDataStructure::new was called with
    ads,              \* the AbstractDataStructure instance (NoADS before new / after a failed new)
    call,             \* the last call on the instance: [op, tid, rnd1, rnd2]
    touched,          \* the storage indices the last call accessed, in order
    ret,              \* the value the last call returned
    ncalls,           \* number of calls made on the instance
    genIn,            \* the arguments and random draws of the last generate_operation
    genOut,           \* what the last generate_operation returned
    bench,            \* the scale-out benchmark whose step function the workers run
    ops,              \* the operation sequence shared by the workers (criterion.rs)
    worker,           \* per worker: [pc, idx, o] of its step function
    replica,          \* per worker: [log, pending, responses] of its replica context
    hist,             \* per worker: responses [drained] by get_responses in all, those
                      \* [returned] by execute itself, and those drained [since] the
                      \* last submission
    smokebench,       \* cfg!(feature = "smokebench")
    harness,          \* the TestHarness: [duration]
    groups,           \* the BenchmarkGroups opened so far: <<[duration], ...>>
    active,           \* the group whose bench_function / bench_with_input runs, or 0
    bencher,          \* the Bencher handed to the running routine
    bhist,            \* what the running benchmark and the groups went through
    data,             \* the samples the last statistics call was given
    result,           \* [fn, out]: the statistics function called and its outcome
    batch_size,       \* the batch size the log-append step function is given
    slice,            \* the operations each log-append worker is given
    appender,         \* per worker: [pc, rest, calls] of its log-append step function
    log               \* the shared log: <<[by, op], ...>>

adsVars == <<adsPc, newArgs, ads, call, touched, ret, ncalls>>

genVars == <<genIn, genOut>>

scaleVars == <<bench, ops, worker, replica, hist>>

benchVars == <<smokebench, harness, groups, active, bencher, bhist>>

statsVars == <<data, result>>

logVars == <<batch_size, slice, appender, log>>

vars == <<debug_assertions, adsVars, genVars, scaleVars, benchVars, statsVars, logVars>>

\* What the actions of one component leave alone.
notADS == <<genVars, scaleVars, benchVars, statsVars, logVars>>

notGen == <<adsVars, scaleVars, benchVars, statsVars, logVars>>

notScale == <<debug_assertions, adsVars, genVars, benchVars, statsVars, logVars>>

notBench == <<adsVars, genVars, scaleVars, statsVars, logVars>>

notStats == <<adsVars, genVars, scaleVars, benchVars, logVars>>

notLog == <<debug_assertions, adsVars, genVars, scaleVars, benchVars, statsVars>>

NoResult == [fn |-> "none"]

InitStatsVars ==
    /\ data = <<>>
    /\ result = NoResult

InitLogVars ==
    /\ batch_size = 0
    /\ slice = <<>>
    /\ appender = <<>>
    /\ log = <<>>

(***************************************************************************)
(* Machine words                                                           *)
(***************************************************************************)
WordBits == 3

Word == 2 ^ WordBits

MaxCalls == 2

\* synthetic.rs:94
MAX_BUFFER_SIZE == 400000

TidVals == {0, 1, 2}

RndVals == {0, 3, Word - 1}

NVals == {4, 5}

HotReadVals == 0 .. 2

HotWriteVals == 0 .. 1

ColdVals == {1, 3}

NoADS == [n |-> 0, cold_reads |-> 0, cold_writes |-> 0, hot_reads |-> 0,
          hot_writes |-> 0, storage |-> <<>>]

NoCall == [op |-> "none", tid |-> 0, rnd1 |-> 0, rnd2 |-> 0]

NoGen == [fn |-> "none"]

InitGenVars ==
    /\ genIn = NoGen
    /\ genOut = NoGen

InitScaleVars ==
    /\ bench = "none"
    /\ ops = <<>>
    /\ worker = <<>>
    /\ replica = <<>>
    /\ hist = <<>>

NoBencher == [measurement_time |-> 0, iterations |-> 0]

\* Nothing runs: no routine entered, no call made on a Bencher.
NoRun == [entered |-> 0, created |-> NoBencher, calls |-> 0, routines |-> 0,
          lastCustom |-> 0, sumAfter |-> 0, passed |-> 0]

InitBenchVars ==
    /\ smokebench = FALSE
    /\ harness = [duration |-> 0]
    /\ groups = <<>>
    /\ active = 0
    /\ bencher = NoBencher
    /\ bhist = [run |-> NoRun, inherited |-> <<>>, override |-> <<>>,
                 harness0 |-> 0, dirty |-> FALSE, made |-> [fn |-> "none", d |-> 0]]

(***************************************************************************)
(* AbstractDataStructure::new                                              *)
(***************************************************************************)
NewAssertsNoHot(n, cold_reads, cold_writes, hot_reads, hot_writes) ==
    /\ hot_reads + cold_writes < Word
    /\ hot_reads + cold_writes < n
    /\ hot_reads + cold_reads < Word
    /\ hot_reads + cold_reads < n
    /\ n < MAX_BUFFER_SIZE

\* The debug_assert!s of new; an overflowing sum panics in the same builds.
NewAsserts(n, cold_reads, cold_writes, hot_reads, hot_writes) ==
    /\ hot_reads + cold_writes < Word
    /\ hot_reads + cold_writes < n
    /\ hot_reads + cold_reads < Word
    /\ hot_reads + cold_reads < n
    /\ hot_writes < hot_reads
    /\ n < MAX_BUFFER_SIZE

\* storage[i] = i for i in 0..n, kept 0-based.
InitStorage(n) == [i \in 0 .. n - 1 |-> i]

New(n, cold_reads, cold_writes, hot_reads, hot_writes) ==
    /\ adsPc = "new"
    /\ newArgs' = <<n, cold_reads, cold_writes, hot_reads, hot_writes>>
    /\ IF debug_assertions /\ ~NewAsserts(n, cold_reads, cold_writes, hot_reads, hot_writes)
       THEN /\ adsPc' = "panic"
            /\ ads' = NoADS
       ELSE /\ adsPc' = "ready"
            /\ ads' = [n |-> n, cold_reads |-> cold_reads, cold_writes |-> cold_writes,
                       hot_reads |-> hot_reads, hot_writes |-> hot_writes,
                       storage |-> InitStorage(n)]
    /\ UNCHANGED <<debug_assertions, call, touched, ret, ncalls, notADS>>

(***************************************************************************)
(* AbstractDataStructure::read / write / read_write                        *)
(* A call is evaluated on s = [storage, sum, touched, fault]: the storage  *)
(* as written so far, the running sum, the indices accessed so far and     *)
(* whether the call has panicked.                                          *)
(***************************************************************************)
Panicked(s) == [s EXCEPT !.fault = TRUE]

\* sum += v
AddSum(s, v) ==
    IF s.fault THEN s
    ELSE IF s.sum + v >= Word
         THEN IF debug_assertions THEN Panicked(s)
              ELSE [s EXCEPT !.sum = (s.sum + v) % Word]
         ELSE [s EXCEPT !.sum = s.sum + v]

\* self.storage[index] = CachePadded::new(*self.storage[index] + 1)
Increment(s, index) ==
    IF s.fault THEN s
    ELSE IF s.storage[index] + 1 >= Word
         THEN IF debug_assertions THEN Panicked(s)
              ELSE [s EXCEPT !.storage[index] = (s.storage[index] + 1) % Word]
         ELSE [s EXCEPT !.storage[index] = s.storage[index] + 1]

\* The body of a loop of op at `index`: a bounds-checked access to storage.
Access(s, index, op, phase, tid) ==
    IF index >= ads.n
    THEN Panicked([s EXCEPT !.touched = Append(@, index)])
    ELSE LET t == [s EXCEPT !.touched = Append(@, index)]
         IN  CASE op = "read" -> AddSum(t, t.storage[index])
               [] op = "write" -> [t EXCEPT !.storage[index] = tid]
               [] op = "read_write" /\ phase = "hot" -> Increment(t, index)
               [] OTHER -> Increment(AddSum(t, t.storage[index]), index)

\* let index = i % self.hot_reads;
HotIndex(i) == i % ads.hot_reads

\* self.n - self.hot_reads, which underflows when hot_reads > n
ColdSpan == IF ads.hot_reads > ads.n THEN Word + ads.n - ads.hot_reads
            ELSE ads.n - ads.hot_reads

ColdIndexPanics(begin) ==
    \/ ColdSpan = 0
    \/ debug_assertions /\ ads.hot_reads > ads.n
    \/ debug_assertions /\ (begin % ColdSpan) + ads.hot_reads >= Word

ColdIndexModN(begin) == ((begin % ads.n) + ads.hot_reads) % Word

\* let index = begin % (self.n - self.hot_reads) + self.hot_reads;
ColdIndex(begin) == ((begin % ColdSpan) + ads.hot_reads) % Word

\* for i in begin..end { ... }
RECURSIVE HotLoop(_, _, _, _, _)
HotLoop(op, tid, i, end, s) ==
    IF s.fault \/ i >= end THEN s
    ELSE IF ads.hot_reads = 0 THEN Panicked(s)
    ELSE HotLoop(op, tid, i + 1, end, Access(s, HotIndex(i), op, "hot", tid))

\* for _i in 0..count { index = ...; begin += rnd2; storage[index] ... }
RECURSIVE ColdLoop(_, _, _, _, _, _)
ColdLoop(op, tid, count, begin, rnd2, s) ==
    IF s.fault \/ count = 0 THEN s
    ELSE IF ColdIndexPanics(begin) THEN Panicked(s)
    ELSE IF debug_assertions /\ begin + rnd2 >= Word THEN Panicked(s)
    ELSE ColdLoop(op, tid, count - 1, (begin + rnd2) % Word, rnd2,
                  Access(s, ColdIndex(begin), op, "cold", tid))

\* The common shape of the three methods: a hot loop over begin..begin+hot_writes,
\* then `count` cold accesses striding by rnd2 from rnd1 * tid.
Run(op, count, tid, rnd1, rnd2) ==
    LET s0 == [storage |-> ads.storage, sum |-> 0, touched |-> <<>>, fault |-> FALSE]
        s1 == IF debug_assertions /\ rnd2 + ads.hot_writes >= Word
              THEN Panicked(s0)
              ELSE HotLoop(op, tid, rnd2, (rnd2 + ads.hot_writes) % Word, s0)
    IN  IF s1.fault THEN s1
        ELSE IF debug_assertions /\ rnd1 * tid >= Word THEN Panicked(s1)
        ELSE ColdLoop(op, tid, count, (rnd1 * tid) % Word, rnd2, s1)

read(tid, rnd1, rnd2) == Run("read", ads.cold_reads, tid, rnd1, rnd2)

write(tid, rnd1, rnd2) ==
    [Run("write", ads.cold_writes, tid, rnd1, rnd2) EXCEPT !.sum = 0]

read_write(tid, rnd1, rnd2) == Run("read_write", ads.cold_writes, tid, rnd1, rnd2)

\* The effect of a finished (or panicked) call on the instance.
Finish(op, tid, rnd1, rnd2, s) ==
    /\ call' = [op |-> op, tid |-> tid, rnd1 |-> rnd1, rnd2 |-> rnd2]
    /\ touched' = s.touched
    /\ ads' = [ads EXCEPT !.storage = s.storage]
    /\ adsPc' = IF s.fault THEN "panic" ELSE "ready"
    /\ ret' = IF s.fault THEN ret ELSE s.sum
    /\ ncalls' = ncalls + 1
    /\ UNCHANGED <<debug_assertions, newArgs, notADS>>

\* Dispatch::dispatch: OpRd::ReadOnly(a, b, c) => Ok(self.read(a, b, c))
Dispatch(tid, rnd1, rnd2) ==
    /\ adsPc = "ready"
    /\ ncalls < MaxCalls
    /\ Finish("read", tid, rnd1, rnd2, read(tid, rnd1, rnd2))

\* Dispatch::dispatch_mut: WriteOnly => write, ReadWrite => read_write
DispatchMut(kind, tid, rnd1, rnd2) ==
    /\ adsPc = "ready"
    /\ ncalls < MaxCalls
    /\ IF kind = "WriteOnly"
       THEN Finish("write", tid, rnd1, rnd2, write(tid, rnd1, rnd2))
       ELSE Finish("read_write", tid, rnd1, rnd2, read_write(tid, rnd1, rnd2))

InitADSVars ==
    /\ adsPc = "new"
    /\ newArgs = <<>>
    /\ ads = NoADS
    /\ call = NoCall
    /\ touched = <<>>
    /\ ret = 0
    /\ ncalls = 0

InitADS ==
    /\ debug_assertions \in BOOLEAN
    /\ InitADSVars
    /\ InitGenVars
    /\ InitScaleVars
    /\ InitBenchVars
    /\ InitStatsVars
    /\ InitLogVars

NextADS ==
    \/ \E n \in NVals, cr \in ColdVals, cw \in ColdVals,
          hr \in HotReadVals, hw \in HotWriteVals : New(n, cr, cw, hr, hw)
    \/ \E tid \in TidVals, rnd1 \in RndVals, rnd2 \in RndVals : Dispatch(tid, rnd1, rnd2)
    \/ \E kind \in {"WriteOnly", "ReadWrite"}, tid \in TidVals,
          rnd1 \in RndVals, rnd2 \in RndVals : DispatchMut(kind, tid, rnd1, rnd2)

SpecADS == InitADS /\ [][NextADS]_vars

(***************************************************************************)
(* Workload generators.  The random source is an input: every draw of the  *)
(* SmallRng is one value chosen by the caller of the operators below.      *)
(***************************************************************************)
OpDraws == 0 .. Word - 1

Panic(at) == [tag |-> "panic", at |-> at]

ReadOnly(tid, rnd1, rnd2) ==
    [tag |-> "ReadOperation", kind |-> "ReadOnly", tid |-> tid, rnd1 |-> rnd1, rnd2 |-> rnd2]

WriteOnly(tid, rnd1, rnd2) ==
    [tag |-> "WriteOperation", kind |-> "WriteOnly", tid |-> tid, rnd1 |-> rnd1, rnd2 |-> rnd2]

ReadWrite(tid, rnd1, rnd2) ==
    [tag |-> "WriteOperation", kind |-> "ReadWrite", tid |-> tid, rnd1 |-> rnd1, rnd2 |-> rnd2]

SyntheticGenerateSwapped(op, tid, readonly, writeonly, readwrite, rnd1, rnd2) ==
    CASE readonly /\ writeonly /\ readwrite ->
            CASE op % 3 = 0 -> ReadOnly(tid, rnd1, rnd2)
              [] op % 3 = 1 -> WriteOnly(tid, rnd1, rnd2)
              [] OTHER -> ReadWrite(tid, rnd1, rnd2)
      [] ~readonly /\ writeonly /\ readwrite ->
            IF op % 2 = 0 THEN WriteOnly(tid, rnd1, rnd2) ELSE ReadWrite(tid, rnd1, rnd2)
      [] readonly /\ writeonly /\ ~readwrite ->
            IF op % 2 = 0 THEN ReadOnly(tid, rnd1, rnd2) ELSE WriteOnly(tid, rnd1, rnd2)
      [] readonly /\ ~writeonly /\ readwrite ->
            IF op % 2 = 0 THEN ReadOnly(tid, rnd1, rnd2) ELSE WriteOnly(tid, rnd1, rnd2)
      [] readonly /\ ~writeonly /\ ~readwrite -> ReadOnly(tid, rnd1, rnd2)
      [] ~readonly /\ writeonly /\ ~readwrite -> WriteOnly(tid, rnd1, rnd2)
      [] ~readonly /\ ~writeonly /\ readwrite -> ReadWrite(tid, rnd1, rnd2)
      [] OTHER -> Panic("no operations selected")

\* synthetic.rs generate_operation; op, rnd1, rnd2 are its three draws in order.
SyntheticGenerate(op, tid, readonly, writeonly, readwrite, rnd1, rnd2) ==
    CASE readonly /\ writeonly /\ readwrite ->
            CASE op % 3 = 0 -> ReadOnly(tid, rnd1, rnd2)
              [] op % 3 = 1 -> WriteOnly(tid, rnd1, rnd2)
              [] OTHER -> ReadWrite(tid, rnd1, rnd2)
      [] ~readonly /\ writeonly /\ readwrite ->
            IF op % 2 = 0 THEN WriteOnly(tid, rnd1, rnd2) ELSE ReadWrite(tid, rnd1, rnd2)
      [] readonly /\ writeonly /\ ~readwrite ->
            IF op % 2 = 0 THEN ReadOnly(tid, rnd1, rnd2) ELSE WriteOnly(tid, rnd1, rnd2)
      [] readonly /\ ~writeonly /\ readwrite ->
            IF op % 2 = 0 THEN ReadOnly(tid, rnd1, rnd2) ELSE ReadWrite(tid, rnd1, rnd2)
      [] readonly /\ ~writeonly /\ ~readwrite -> ReadOnly(tid, rnd1, rnd2)
      [] ~readonly /\ writeonly /\ ~readwrite -> WriteOnly(tid, rnd1, rnd2)
      [] ~readonly /\ ~writeonly /\ readwrite -> ReadWrite(tid, rnd1, rnd2)
      [] OTHER -> Panic("no operations selected")

GenerateSynthetic(op, tid, readonly, writeonly, readwrite, rnd1, rnd2) ==
    /\ genIn = NoGen
    /\ genIn' = [fn |-> "synthetic", op |-> op, tid |-> tid, readonly |-> readonly,
                 writeonly |-> writeonly, readwrite |-> readwrite,
                 rnd1 |-> rnd1, rnd2 |-> rnd2]
    /\ genOut' = SyntheticGenerate(op, tid, readonly, writeonly, readwrite, rnd1, rnd2)
    /\ UNCHANGED <<debug_assertions, notGen>>

\* hashmap.rs
MaxSpan == 3

\* hashmap.rs:113
PERCENT == 100

SpanVals == 0 .. MaxSpan

Distributions == {"uniform", "skewed", "zipf", "Uniform", ""}

WriteRatios == {0, 10, 50, 100, 150}

RatioDraws == {0, 9, 10, 11, 49, 50, 99, 100, 109, 110, 150, 199}

ValueDraws == {6, 7}

Get(key) == [tag |-> "ReadOperation", kind |-> "Get", key |-> key]

Put(key, val) == [tag |-> "WriteOperation", kind |-> "Put", key |-> key, val |-> val]

DistributionOKAny(distribution) == distribution # ""

\* assert!(distribution == "skewed" || distribution == "uniform")
DistributionOK(distribution) == distribution = "skewed" \/ distribution = "uniform"

\* zipf.sample(rng): a value in [1, num_elements]
ZipfSample(span) == 1 .. span

\* rng.gen_range(low, high): a value in [low, high)
GenRange(low, high) == low .. high - 1

KeyDrawsUniformOnly(skewed, span) == GenRange(0, span)

\* The values `id` can take.
KeyDraws(skewed, span) == IF skewed THEN ZipfSample(span) ELSE GenRange(0, span)

IsWriteInclusive(draw, write_ratio) == draw % PERCENT <= write_ratio

\* rng.gen::<usize>() % 100 < write_ratio
IsWrite(draw, write_ratio) == draw % PERCENT < write_ratio

\* hashmap.rs generate_operation once `id` is drawn.
HashmapGenerate(id, draw, val, write_ratio) ==
    IF IsWrite(draw, write_ratio) THEN Put(id, val) ELSE Get(id)

\* hashmap.rs generate_operation: the assert, the unwrap of ZipfDistribution::new
\* (an Err for zero elements), the key draw and the read/write draw.
GenerateHashmap(write_ratio, span, distribution, draw, val) ==
    /\ genIn = NoGen
    /\ IF ~DistributionOK(distribution)
       THEN /\ genOut' = Panic("distribution")
            /\ genIn' = [fn |-> "hashmap", write_ratio |-> write_ratio, span |-> span,
                         distribution |-> distribution, id |-> 0, draw |-> 0, val |-> 0]
       ELSE IF span = 0
       THEN /\ genOut' = Panic("ZipfDistribution::new")
            /\ genIn' = [fn |-> "hashmap", write_ratio |-> write_ratio, span |-> span,
                         distribution |-> distribution, id |-> 0, draw |-> 0, val |-> 0]
       ELSE \E id \in KeyDraws(distribution = "skewed", span) :
            /\ genOut' = HashmapGenerate(id, draw, val, write_ratio)
            /\ genIn' = [fn |-> "hashmap", write_ratio |-> write_ratio, span |-> span,
                         distribution |-> distribution, id |-> id, draw |-> draw,
                         val |-> IF IsWrite(draw, write_ratio) THEN val ELSE 0]
    /\ UNCHANGED <<debug_assertions, notGen>>

InitGen ==
    /\ debug_assertions = FALSE
    /\ InitADSVars
    /\ InitGenVars
    /\ InitScaleVars
    /\ InitBenchVars
    /\ InitStatsVars
    /\ InitLogVars

NextGen ==
    \/ \E op \in OpDraws, tid \in TidVals, ro \in BOOLEAN, wo \in BOOLEAN, rw \in BOOLEAN,
          rnd1 \in RndVals, rnd2 \in RndVals : GenerateSynthetic(op, tid, ro, wo, rw, rnd1, rnd2)
    \/ \E wr \in WriteRatios, span \in SpanVals, dist \in Distributions,
          draw \in RatioDraws, val \in ValueDraws : GenerateHashmap(wr, span, dist, draw, val)

SpecGen == InitGen /\ [][NextGen]_vars


(***************************************************************************)
(* Scale-out step functions.  Worker w runs on core Cid(w) against its     *)
(* replica context Rid(w).  The replica (execute, execute_ro,              *)
(* get_responses) and the runner that calls the step function belong to    *)
(* the replication engine and to mkbench.                                  *)
(***************************************************************************)
NumWorkers == 2

MaxNop == 2

MaxSteps == 2

\* hashmap.rs:140
KEY_SPACE == 5000000

\* hashmap.rs:145
WRITE_RATIO == 10

Workers == 0 .. NumWorkers - 1

Cid(w) == w

Rid(w) == w

Benches == {"criterion-synthetic-scaleout", "hashmap-scaleout", "synthetic-scaleout"}

\* The criterion.rs benchmarks whose step function polls get_responses.
PollingBenches == {"criterion-stack-scaleout", "criterion-synthetic-scaleout"}

\* What stack::generate_operations yields: pushes and pops.
StackOps == {[tag |-> "WriteOperation", kind |-> "Push", val |-> 1],
             [tag |-> "WriteOperation", kind |-> "Pop"]}

\* The operations of the shared sequence: generated for thread 0
\* (criterion.rs:76).  criterion.rs enables only the read-write kind; the pool
\* holds one operation of each kind so that set_tid acts on all three.
Templates == {SyntheticGenerate(op, 0, TRUE, TRUE, TRUE, 3, Word - 1) : op \in 0 .. 2}

SetTidWrongField(op, tid) == [op EXCEPT !.rnd1 = tid]

\* OpRd::set_tid / OpWr::set_tid
set_tid(op, tid) ==
    CASE op.kind = "ReadOnly" -> [op EXCEPT !.tid = tid]
      [] op.kind = "WriteOnly" -> [op EXCEPT !.tid = tid]
      [] op.kind = "ReadWrite" -> [op EXCEPT !.tid = tid]

\* replica.execute(op, rid) / replica.execute_ro(op, rid) of the polling
\* interface: the operation is handed to the replica, its response comes later.
ReplicaSubmit(r, fn, op, rid) ==
    [r EXCEPT !.log = Append(@, [fn |-> fn, op |-> op, rid |-> rid]),
              !.pending = @ + 1]

\* replica.execute(op, rid) / execute_ro(op, rid) returning Result<Response, _>:
\* the operation is applied before the call returns its response.
ReplicaExecuteSync(r, fn, op, rid) ==
    [r EXCEPT !.log = Append(@, [fn |-> fn, op |-> op, rid |-> rid])]

\* The replica applies one pending operation of a context and queues its
\* response; a replica that loses the lost-th operation of a context never
\* produces that response (lost = 0: none is lost).
ReplicaApply(w) ==
    /\ bench \in PollingBenches
    /\ replica[w].pending > 0
    /\ Len(replica[w].log) # replica[w].lost
    /\ replica' = [replica EXCEPT ![w].pending = @ - 1, ![w].responses = @ + 1]
    /\ UNCHANGED <<bench, ops, worker, hist, notScale>>

SpinningNever(count) == FALSE

\* while replica.get_responses(rid, &mut o) == 0 {}
Spinning(count) == count = 0

\* criterion.rs synthetic_scale_out, `for op in ops` with an operation left:
\* let mut op = *op; op.set_tid(cid as usize); replica.execute(op, rid);
Submit(w) ==
    /\ bench \in PollingBenches
    /\ worker[w].pc = "for"
    /\ worker[w].idx < Len(ops)
    /\ LET op == IF bench = "criterion-synthetic-scaleout"
                 THEN set_tid(ops[worker[w].idx + 1], Cid(w))
                 ELSE ops[worker[w].idx + 1]
       IN  replica' = [replica EXCEPT ![w] = ReplicaSubmit(@, "execute", op, Rid(w))]
    /\ worker' = [worker EXCEPT ![w].pc = "poll"]
    /\ hist' = [hist EXCEPT ![w].since = 0]
    /\ UNCHANGED <<bench, ops, notScale>>

\* One evaluation of the condition of the spin loop: get_responses moves the
\* queued responses into o and returns their number.
Poll(w) ==
    /\ bench \in PollingBenches
    /\ worker[w].pc = "poll"
    /\ LET count == replica[w].responses
       IN  /\ replica' = [replica EXCEPT ![w].responses = 0]
           /\ worker' = [worker EXCEPT ![w].o = @ + count,
                                       ![w].pc = IF Spinning(count) THEN "poll" ELSE "clear"]
           /\ hist' = [hist EXCEPT ![w].drained = @ + count, ![w].since = @ + count]
    /\ UNCHANGED <<bench, ops, notScale>>

\* o.clear(); and on to the next operation
Clear(w) ==
    /\ bench \in PollingBenches
    /\ worker[w].pc = "clear"
    /\ worker' = [worker EXCEPT ![w].o = 0, ![w].idx = @ + 1, ![w].pc = "for"]
    /\ UNCHANGED <<bench, ops, replica, hist, notScale>>

\* `for op in ops` with no operation left: the step function returns.
Return(w) ==
    /\ bench \in PollingBenches
    /\ worker[w].pc = "for"
    /\ worker[w].idx = Len(ops)
    /\ worker' = [worker EXCEPT ![w].pc = "done"]
    /\ UNCHANGED <<bench, ops, replica, hist, notScale>>

\* One call of a step function whose execute returns the response.
SyncStep(w, op) ==
    /\ worker[w].pc = "for"
    /\ worker[w].idx < MaxSteps
    /\ replica' = [replica EXCEPT ![w] =
            ReplicaExecuteSync(@, IF op.tag = "ReadOperation" THEN "execute_ro" ELSE "execute",
                               op, Rid(w))]
    /\ worker' = [worker EXCEPT ![w].idx = @ + 1]
    /\ hist' = [hist EXCEPT ![w].returned = @ + 1, ![w].since = 0]
    /\ UNCHANGED <<bench, ops, notScale>>

\* hashmap.rs hashmap_scale_out: generate_operation(rng, WRITE_RATIO, KEY_SPACE,
\* UNIFORM), then execute_ro(op, rid).unwrap() or execute(op, rid).unwrap()
HashmapStep(w, id, draw, val) ==
    /\ bench = "hashmap-scaleout"
    /\ SyncStep(w, HashmapGenerate(id, draw, val, WRITE_RATIO))

\* synthetic.rs synthetic_scale_out: generate_operation(rng, cid, false, false,
\* true), o.set_tid(cid), then execute_ro or execute, unwrapped
SyntheticStep(w, op, rnd1, rnd2) ==
    /\ bench = "synthetic-scaleout"
    /\ SyncStep(w, set_tid(SyntheticGenerate(op, Cid(w), FALSE, FALSE, TRUE, rnd1, rnd2),
                           Cid(w)))

InitScale ==
    /\ debug_assertions = FALSE
    /\ InitADSVars
    /\ InitGenVars
    /\ InitBenchVars
    /\ InitStatsVars
    /\ InitLogVars
    /\ bench \in Benches
    /\ ops \in IF bench = "criterion-synthetic-scaleout"
               THEN [1 .. MaxNop -> Templates] ELSE {<<>>}
    /\ worker = [w \in Workers |-> [pc |-> "for", idx |-> 0, o |-> 0]]
    /\ replica = [w \in Workers |-> [log |-> <<>>, pending |-> 0, responses |-> 0,
                                      lost |-> 0]]
    /\ hist = [w \in Workers |-> [drained |-> 0, returned |-> 0, since |-> 0]]

NextScale ==
    \/ \E w \in Workers : Submit(w)
    \/ \E w \in Workers : Poll(w)
    \/ \E w \in Workers : Clear(w)
    \/ \E w \in Workers : Return(w)
    \/ \E w \in Workers : ReplicaApply(w)
    \/ \E w \in Workers, id \in {k \in {KEY_SPACE - 1, KEY_SPACE} : k \in GenRange(0, KEY_SPACE)},
          draw \in {WRITE_RATIO - 1, WRITE_RATIO}, val \in {7} :
            HashmapStep(w, id, draw, val)
    \/ \E w \in Workers, op \in {0, 1}, rnd1 \in {3}, rnd2 \in {Word - 1} :
            SyntheticStep(w, op, rnd1, rnd2)

SpecScale == InitScale /\ [][NextScale]_vars

\* A run of a polling benchmark in which the replica may fail to answer one
\* operation of one worker.  Every worker is given the whole sequence.
LossChoices ==
    {[w \in Workers |-> 0]} \cup
    {[w \in Workers |-> IF w = v THEN k ELSE 0] : v \in Workers, k \in 1 .. MaxNop}

InitPoll ==
    /\ debug_assertions = FALSE
    /\ InitADSVars
    /\ InitGenVars
    /\ InitBenchVars
    /\ InitStatsVars
    /\ InitLogVars
    /\ bench \in PollingBenches
    /\ \E t \in IF bench = "criterion-synthetic-scaleout" THEN Templates ELSE StackOps :
            ops = [k \in 1 .. MaxNop |-> t]
    /\ worker = [w \in Workers |-> [pc |-> "for", idx |-> 0, o |-> 0]]
    /\ \E lost \in LossChoices :
            replica = [w \in Workers |-> [log |-> <<>>, pending |-> 0, responses |-> 0,
                                         lost |-> lost[w]]]
    /\ hist = [w \in Workers |-> [drained |-> 0, returned |-> 0, since |-> 0]]

NextPoll ==
    \/ \E w \in Workers : Submit(w)
    \/ \E w \in Workers : Poll(w)
    \/ \E w \in Workers : Clear(w)
    \/ \E w \in Workers : Return(w)
    \/ \E w \in Workers : ReplicaApply(w)

\* Fair scheduling of the worker threads, and a replica that eventually
\* answers every operation it has not lost.
FairPoll ==
    \A w \in Workers :
        /\ WF_vars(Submit(w))
        /\ WF_vars(Poll(w))
        /\ WF_vars(Clear(w))
        /\ WF_vars(Return(w))
        /\ WF_vars(ReplicaApply(w))

SpecPoll == InitPoll /\ [][NextPoll]_vars /\ FairPoll



(***************************************************************************)
(* Measurement harness: TestHarness, BenchmarkGroup, Bencher.              *)
(* Durations are in milliseconds.  A routine is an input: the value it     *)
(* returns is chosen by the caller of Iter and IterCustom.                 *)
(***************************************************************************)
MaxGroups == 2

MaxBencherCalls == 3

DurationArgs == {1000, 2000}

RetVals == {0, 1, Word - 1}

TestHarnessNewAsAsked(d) == [duration |-> d]

\* TestHarness::new
TestHarnessNew(d) ==
    IF smokebench THEN [duration |-> 500] ELSE [duration |-> d]

\* Default for TestHarness
TestHarnessDefault ==
    IF smokebench THEN TestHarnessNew(500) ELSE TestHarnessNew(5000)

\* Bencher::new
BencherNew(duration) == [measurement_time |-> duration, iterations |-> 0]

BencherIterAssign(b, r) == [b EXCEPT !.iterations = r]

\* Bencher::iter, given what routine() returned: self.iterations += routine()
BencherIter(b, r) == [b EXCEPT !.iterations = (b.iterations + r) % Word]

\* Bencher::iter_custom, given what routine(self.measurement_time) returned
BencherIterCustom(b, r) == [b EXCEPT !.iterations = r]

\* TestHarness::benchmark_group
BenchmarkGroup ==
    /\ active = 0
    /\ Len(groups) < MaxGroups
    /\ groups' = Append(groups, [duration |-> harness.duration])
    /\ bhist' = [bhist EXCEPT !.inherited = Append(@, harness.duration),
                              !.override = Append(@, 0)]
    /\ UNCHANGED <<smokebench, harness, active, bencher, debug_assertions, notBench>>

\* BenchmarkGroup::duration
Duration(g, d) ==
    /\ active = 0
    /\ groups' = [groups EXCEPT ![g].duration = d]
    /\ bhist' = [bhist EXCEPT !.override[g] = d]
    /\ UNCHANGED <<smokebench, harness, active, bencher, debug_assertions, notBench>>

GroupDurationOfHarness(g) == harness.duration

\* self.duration of group g
GroupDuration(g) == groups[g].duration

\* let mut bencher = Bencher::new(self.duration); f(&mut bencher) is entered
RunRoutine(g) ==
    /\ active = 0
    /\ active' = g
    /\ bencher' = BencherNew(GroupDuration(g))
    /\ bhist' = [bhist EXCEPT !.run = [NoRun EXCEPT !.entered = 1,
                                          !.created = BencherNew(GroupDuration(g))]]
    /\ UNCHANGED <<smokebench, harness, groups, debug_assertions, notBench>>

\* BenchmarkGroup::bench_function, up to the call of f
BenchFunction(g) == RunRoutine(g)

\* BenchmarkGroup::bench_with_input, up to the call of f; the input is only
\* handed on to f
BenchWithInput(g) == RunRoutine(g)

\* The routine calls b.iter(routine); in a build that checks overflow the
\* addition panics instead of wrapping, and the benchmark program aborts.
Iter(r) ==
    /\ active > 0
    /\ bhist.run.calls < MaxBencherCalls
    /\ IF debug_assertions /\ bencher.iterations + r >= Word
       THEN /\ active' = -1
            /\ bencher' = bencher
            /\ bhist' = [bhist EXCEPT !.run.routines = @ + 1]
       ELSE /\ active' = active
            /\ bencher' = BencherIter(bencher, r)
            /\ bhist' = [bhist EXCEPT !.run.calls = @ + 1, !.run.routines = @ + 1,
                                      !.run.sumAfter = @ + r]
    /\ UNCHANGED <<smokebench, harness, groups, debug_assertions, notBench>>

\* The routine calls b.iter_custom(routine).
IterCustom(r) ==
    /\ active > 0
    /\ bhist.run.calls < MaxBencherCalls
    /\ bencher' = BencherIterCustom(bencher, r)
    /\ bhist' = [bhist EXCEPT !.run.calls = @ + 1, !.run.routines = @ + 1,
                              !.run.lastCustom = r, !.run.sumAfter = 0,
                              !.run.passed = bencher.measurement_time]
    /\ UNCHANGED <<smokebench, harness, groups, active, debug_assertions, notBench>>

\* f returns; bench_function / bench_with_input drop the Bencher and return.
RoutineReturn ==
    /\ active > 0
    /\ active' = 0
    /\ bencher' = NoBencher
    /\ bhist' = [bhist EXCEPT !.run = NoRun,
                              !.dirty = @ \/ bencher.iterations > 0]
    /\ UNCHANGED <<smokebench, harness, groups, debug_assertions, notBench>>

\* The ways a benchmark program makes its harness: TestHarness::new(d) or
\* Default::default().
HarnessCalls ==
    {[fn |-> "new", d |-> d] : d \in DurationArgs} \cup {[fn |-> "default", d |-> 0]}

InitBench ==
    /\ debug_assertions \in BOOLEAN
    /\ InitADSVars
    /\ InitGenVars
    /\ InitScaleVars
    /\ InitStatsVars
    /\ InitLogVars
    /\ smokebench \in BOOLEAN
    /\ \E made \in HarnessCalls :
        /\ harness = IF made.fn = "new" THEN TestHarnessNew(made.d) ELSE TestHarnessDefault
        /\ bhist = [run |-> NoRun, inherited |-> <<>>, override |-> <<>>,
                     harness0 |-> harness.duration, dirty |-> FALSE, made |-> made]
    /\ groups = <<>>
    /\ active = 0
    /\ bencher = NoBencher

NextBench ==
    \/ BenchmarkGroup
    \/ \E g \in 1 .. Len(groups), d \in DurationArgs : Duration(g, d)
    \/ \E g \in 1 .. Len(groups) : BenchFunction(g)
    \/ \E g \in 1 .. Len(groups) : BenchWithInput(g)
    \/ \E r \in RetVals : Iter(r)
    \/ \E r \in RetVals : IterCustom(r)
    \/ RoutineReturn

SpecBench == InitBench /\ [][NextBench]_vars

(***************************************************************************)
(* Statistics: mean and std_deviation (bench_utils/src/benchmark.rs).      *)
(* f64 is modelled as a binary floating-point format whose significand is  *)
(* narrower than the word, as the 53 bits of f64 are narrower than the 64  *)
(* of usize.  A float is held as an integer count of units of 2^-FracBits; *)
(* every value the functions produce from MaxSamples samples is a whole    *)
(* number of units.  Rounding is to nearest, ties to even.                 *)
(***************************************************************************)
MaxSamples == 3

MantissaBits == WordBits - 2

FracBits == MantissaBits + MaxSamples

Unit == 2 ^ FracBits

\* Option<f64>
None == [tag |-> "None"]

Some(v) == [tag |-> "Some", val |-> v]

\* The float nearest to num / den (num >= 0, den > 0), in units.
RoundToFloat(num, den) ==
    IF num = 0 THEN 0
    ELSE LET N == num * Unit
             e == CHOOSE k \in 0 .. (2 * WordBits + 2 * FracBits) :
                        (2 ^ k) * den <= N /\ N < (2 ^ (k + 1)) * den
             ulp == 2 ^ (e - (MantissaBits - 1))
             m == N \div (den * ulp)
             rest == N - m * den * ulp
         IN  IF 2 * rest > den * ulp THEN (m + 1) * ulp
             ELSE IF 2 * rest < den * ulp THEN m * ulp
             ELSE (m + (m % 2)) * ulp

\* `x as f64` for a usize x
AsF64(x) == RoundToFloat(x, 1)

RECURSIVE SumSeq(_)
SumSeq(s) == IF s = <<>> THEN 0 ELSE Head(s) + SumSeq(Tail(s))

\* data.iter().sum::<usize>() overflows
SumOverflows(d) == SumSeq(d) >= Word

\* data.iter().sum::<usize>() where it does not panic
SumUsize(d) == SumSeq(d) % Word

\* mean(data): the sum is taken first, in usize; in a build that checks
\* overflow it panics when it overflows.
mean(d) ==
    IF debug_assertions /\ SumOverflows(d) THEN Panic("sum")
    ELSE LET sum == AsF64(SumUsize(d))
             count == Len(d)
         IN  IF count > 0 THEN Some(RoundToFloat(sum, AsF64(count))) ELSE None

\* The least s, in units, with s * s * count >= total: the square root of
\* total / count, rounded up to a unit (zero only for zero).
SqrtUp(total, count) ==
    CHOOSE s \in 0 .. (Word * Unit) :
        /\ s * s * count >= total
        /\ s = 0 \/ (s - 1) * (s - 1) * count < total

\* std_deviation(data); the differences are taken exactly (a float
\* subtraction is zero only for equal operands).
std_deviation(d) ==
    LET m == mean(d)
        count == Len(d)
    IN  IF m.tag = "panic" THEN m
        ELSE IF m.tag = "Some" /\ count > 0
        THEN LET diff(k) == m.val - AsF64(d[k])
                 squares == [k \in 1 .. count |-> diff(k) * diff(k)]
             IN  Some(SqrtUp(SumSeq(squares), count))
        ELSE None

SampleSeqs == UNION {[1 .. n -> 0 .. Word - 1] : n \in 0 .. MaxSamples}

Mean(d) ==
    /\ result = NoResult
    /\ data' = d
    /\ result' = [fn |-> "mean", out |-> mean(d)]
    /\ UNCHANGED <<debug_assertions, notStats>>

StdDeviation(d) ==
    /\ result = NoResult
    /\ data' = d
    /\ result' = [fn |-> "std_deviation", out |-> std_deviation(d)]
    /\ UNCHANGED <<debug_assertions, notStats>>

InitStats ==
    /\ debug_assertions \in BOOLEAN
    /\ InitADSVars
    /\ InitGenVars
    /\ InitScaleVars
    /\ InitBenchVars
    /\ InitStatsVars
    /\ InitLogVars

NextStats ==
    \/ \E d \in SampleSeqs : Mean(d)
    \/ \E d \in SampleSeqs : StdDeviation(d)

SpecStats == InitStats /\ [][NextStats]_vars

(***************************************************************************)
(* The log-only step function (criterion.rs log_scale_bench).  The log     *)
(* belongs to the replication engine: its append takes a batch and returns *)
(* an Option, None when the batch was not appended.                        *)
(***************************************************************************)
MaxLogNop == 9

\* criterion.rs:112, add_batch(8)
BATCH_SIZE == 8

NopVals == {0, 1, BATCH_SIZE - 1, BATCH_SIZE, MaxLogNop}

\* for e in 0..NOP { operations.push(e); }
Operations(nop) == [k \in 1 .. nop |-> k - 1]

RChunkExact(s, rest, size) ==
    IF rest < size THEN <<>> ELSE SubSeq(s, rest - size + 1, rest)

\* The next item of ops.rchunks(size) when the first rest elements of s are
\* still to be cut: the last size of them, or all of them if fewer.
RChunk(s, rest, size) ==
    SubSeq(s, (IF rest > size THEN rest - size ELSE 0) + 1, rest)

\* log.append(batch, 1) that returns Some: the batch is on the log, in order.
LogAppend(l, by, batch) ==
    l \o [k \in 1 .. Len(batch) |-> [by |-> by, op |-> batch[k]]]

\* One turn of `for batch_op in ops.rchunks(batch_size)`: the batch is
\* handed to log.append, whose result is dropped (let _r = ..).
AppendBatch(w, some) ==
    /\ appender[w].pc = "for"
    /\ appender[w].rest > 0
    /\ LET batch_op == RChunk(slice, appender[w].rest, batch_size)
       IN  /\ log' = IF some THEN LogAppend(log, w, batch_op) ELSE log
           /\ appender' = [appender EXCEPT
                  ![w].rest = @ - Len(batch_op),
                  ![w].calls = Append(@, [batch |-> batch_op, some |-> some])]
    /\ UNCHANGED <<batch_size, slice, notLog>>

\* rchunks is exhausted: the step function returns.
AppendReturn(w) ==
    /\ appender[w].pc = "for"
    /\ appender[w].rest = 0
    /\ appender' = [appender EXCEPT ![w].pc = "done"]
    /\ UNCHANGED <<batch_size, slice, log, notLog>>

InitLog ==
    /\ debug_assertions = FALSE
    /\ InitADSVars
    /\ InitGenVars
    /\ InitScaleVars
    /\ InitBenchVars
    /\ InitStatsVars
    /\ batch_size = BATCH_SIZE
    /\ slice \in {Operations(nop) : nop \in NopVals}
    /\ appender = [w \in Workers |-> [pc |-> "for", rest |-> Len(slice), calls |-> <<>>]]
    /\ log = <<>>

NextLog ==
    \/ \E w \in Workers, some \in BOOLEAN : AppendBatch(w, some)
    \/ \E w \in Workers : AppendReturn(w)

SpecLog == InitLog /\ [][NextLog]_vars




(***************************************************************************)
(* Claims about the AbstractDataStructure                                  *)
(***************************************************************************)
\* The three relations between the size parameters.
RelationsHold(n, cold_reads, cold_writes, hot_reads, hot_writes) ==
    /\ hot_reads + cold_writes < n
    /\ hot_reads + cold_reads < n
    /\ hot_writes < hot_reads

Constructed == adsPc # "new"

ArgsOK ==
    /\ Constructed
    /\ RelationsHold(newArgs[1], newArgs[2], newArgs[3], newArgs[4], newArgs[5])

InRange(idx) == \A k \in 1 .. Len(idx) : idx[k] >= 0 /\ idx[k] < ads.n

\* C2: on an instance whose parameters satisfy the three relations, every
\* storage index accessed by read, write and read_write lies in [0, n), for
\* every tid, rnd1, rnd2 in machine-word arithmetic and after any calls; a
\* build that wraps on overflow never panics in such a call.
C2_IndicesInRange ==
    (Constructed /\ ArgsOK) =>
        /\ InRange(touched)
        /\ (~debug_assertions => adsPc = "ready")

\* C2 witness: a write whose rnd1 * tid and begin + hot_writes both wrap around
\* the machine word has accessed storage, after an earlier call.
C2_Witness ==
    /\ ~debug_assertions /\ ArgsOK /\ adsPc = "ready" /\ ncalls = 2
    /\ call.op = "write" /\ call.tid = 2
    /\ call.rnd1 = Word - 1 /\ call.rnd2 = Word - 1
    /\ ads.hot_reads = 2 /\ ads.hot_writes = 1
    /\ Len(touched) = ads.cold_writes

\* C3 as stated: construction with parameters violating one of the three
\* relations faults, and no such instance is ever used.
C3_FaultsAlways ==
    (Constructed /\ ~ArgsOK) => (adsPc = "panic" /\ ads = NoADS /\ ncalls = 0)

\* C3 amended: in a build with debug assertions, construction with parameters
\* violating one of the three relations faults and no such instance is used;
\* in a build without them the checks are compiled out and new returns an
\* instance holding the parameters as given.
C3_FaultsInDebug ==
    /\ (debug_assertions /\ Constructed /\ ~ArgsOK) =>
            (adsPc = "panic" /\ ads = NoADS /\ ncalls = 0)
    /\ (~debug_assertions /\ Constructed) =>
            (ads # NoADS /\ newArgs = <<ads.n, ads.cold_reads, ads.cold_writes,
                                        ads.hot_reads, ads.hot_writes>>)

\* C3 witness: a debug build faulted in new on parameters violating only
\* hot_writes < hot_reads.
C3_Witness ==
    /\ debug_assertions /\ adsPc = "panic" /\ ncalls = 0 /\ ads = NoADS
    /\ newArgs = <<5, 1, 1, 1, 1>>

(***************************************************************************)
(* Claims about the workload generators                                    *)
(***************************************************************************)
\* The kinds a mask enables, in the order ReadOnly, WriteOnly, ReadWrite.
EnabledKinds(readonly, writeonly, readwrite) ==
    (IF readonly THEN <<"ReadOnly">> ELSE <<>>)
        \o (IF writeonly THEN <<"WriteOnly">> ELSE <<>>)
        \o (IF readwrite THEN <<"ReadWrite">> ELSE <<>>)

TagOf(kind) == IF kind = "ReadOnly" THEN "ReadOperation" ELSE "WriteOperation"

SyntheticCalled == genIn.fn = "synthetic"

HashmapCalled == genIn.fn = "hashmap"

\* C4: the synthetic generate_operation returns the enabled kind selected by
\* the draw modulo the number of enabled kinds (so only enabled kinds, and each
\* of them for some draw), as a ReadOperation for ReadOnly and a WriteOperation
\* for WriteOnly and ReadWrite, carrying the caller's tid; the all-false mask
\* faults.
C4_EnabledKindByDraw ==
    SyntheticCalled =>
        LET kinds == EnabledKinds(genIn.readonly, genIn.writeonly, genIn.readwrite)
        IN  IF kinds = <<>>
            THEN genOut.tag = "panic"
            ELSE /\ genOut.tag # "panic"
                 /\ genOut.kind = kinds[(genIn.op % Len(kinds)) + 1]
                 /\ genOut.tag = TagOf(genOut.kind)
                 /\ genOut.tid = genIn.tid
                 /\ \A k \in 1 .. Len(kinds) :
                        \E op \in OpDraws :
                            SyntheticGenerate(op, genIn.tid, genIn.readonly, genIn.writeonly,
                                              genIn.readwrite, genIn.rnd1, genIn.rnd2).kind
                                = kinds[k]

\* C4 witness: with ReadOnly and ReadWrite enabled an odd draw gave a ReadWrite
\* write operation for thread 2.
C4_Witness ==
    /\ SyntheticCalled
    /\ genIn.readonly /\ ~genIn.writeonly /\ genIn.readwrite
    /\ genIn.op = 5 /\ genIn.tid = 2
    /\ genOut.tag = "WriteOperation" /\ genOut.kind = "ReadWrite" /\ genOut.tid = 2

\* C5: the hashmap generate_operation faults on its distribution check, and
\* returns no operation, exactly when the distribution string is neither
\* "uniform" nor "skewed".
C5_UnknownDistributionFaults ==
    HashmapCalled =>
        ((genIn.distribution \notin {"uniform", "skewed"})
            <=> (genOut = Panic("distribution")))

\* C5 witness: the distribution "zipf" faulted.
C5_Witness ==
    /\ HashmapCalled /\ genIn.distribution = "zipf" /\ genIn.span > 0
    /\ genOut.tag = "panic"

\* C6: the read/write choice is decided by d = draw % 100 and the write ratio
\* alone: d < write_ratio gives WriteOperation(Put(key, value drawn)), d >=
\* write_ratio gives ReadOperation(Get(key)), on the drawn key; so write_ratio
\* 0 never writes and write_ratio >= 100 never reads.
C6_WriteBelowRatio ==
    (HashmapCalled /\ genOut.tag # "panic") =>
        LET d == genIn.draw % 100
        IN  /\ d < genIn.write_ratio => genOut = Put(genIn.id, genIn.val)
            /\ d >= genIn.write_ratio => genOut = Get(genIn.id)
            /\ genIn.write_ratio = 0 => genOut.tag = "ReadOperation"
            /\ genIn.write_ratio >= 100 => genOut.tag = "WriteOperation"

\* C6 witness: a draw equal to the write ratio modulo 100 gave a read.
C6_Witness ==
    /\ HashmapCalled /\ genIn.write_ratio = 10 /\ genIn.draw = 110
    /\ genOut = Get(genIn.id)

\* C7: for span > 0 the key of the generated operation lies in [0, span) for
\* "uniform" and in [1, span] for "skewed".
C7_KeyInRange ==
    (HashmapCalled /\ genOut.tag # "panic" /\ genIn.span > 0) =>
        /\ genIn.distribution = "uniform" => (0 <= genOut.key /\ genOut.key < genIn.span)
        /\ genIn.distribution = "skewed" => (1 <= genOut.key /\ genOut.key <= genIn.span)

\* C7 witness: a skewed draw produced the largest key, span itself.
C7_Witness ==
    /\ HashmapCalled /\ genIn.distribution = "skewed" /\ genIn.span = MaxSpan
    /\ genOut.tag # "panic" /\ genOut.key = MaxSpan

(***************************************************************************)
(* Claims about the scale-out step functions                               *)
(***************************************************************************)
Submitted(w) == Len(replica[w].log)

Polling(w) == worker[w].pc \in {"poll", "clear"}

Scaling == bench \in Benches

\* C1 as stated: in every step function that drives a replica, the worker
\* submits the next operation only after a get_responses poll drained at least
\* one response since the previous submission, and never has more than one
\* submission that get_responses has not drained.
C1_PollsBeforeNextSubmit ==
    Scaling =>
        \A w \in Workers :
            /\ (~Polling(w) /\ Submitted(w) >= 1) => hist[w].since >= 1
            /\ Submitted(w) - hist[w].drained <= 1

\* C1 amended: in the criterion.rs step function the worker submits ops[i+1]
\* only after a poll of get_responses drained a response since it submitted
\* ops[i], submits each operation once and in order, and submits nothing while
\* polling; the step functions of hashmap.rs and synthetic.rs never call
\* get_responses: each call submits one generated operation through execute or
\* execute_ro, which returns the response itself.  In all of them a worker
\* has at most one submission whose response it has not received.
C1_OneOutstanding ==
    Scaling =>
        \A w \in Workers :
            /\ Submitted(w) - (hist[w].drained + hist[w].returned) \in {0, 1}
            /\ IF bench = "criterion-synthetic-scaleout"
               THEN /\ (~Polling(w) /\ Submitted(w) >= 1) => hist[w].since >= 1
                    /\ Submitted(w) = worker[w].idx + (IF Polling(w) THEN 1 ELSE 0)
                    /\ Submitted(w) - hist[w].drained
                            = (IF worker[w].pc = "poll" /\ worker[w].o = 0 THEN 1 ELSE 0)
                    /\ hist[w].returned = 0
                    /\ \A k \in 1 .. Submitted(w) :
                            replica[w].log[k].op = [ops[k] EXCEPT !.tid = Cid(w)]
               ELSE /\ hist[w].drained = 0
                    /\ Submitted(w) = worker[w].idx
                    /\ hist[w].returned = worker[w].idx

\* C1 witness: in the criterion.rs benchmark one worker has returned from its
\* step function with every operation drained while another worker still
\* polls for the response to its first operation.
C1_Witness ==
    /\ bench = "criterion-synthetic-scaleout"
    /\ worker[0].pc = "done" /\ Submitted(0) = MaxNop /\ hist[0].drained = MaxNop
    /\ worker[1].pc = "poll" /\ Submitted(1) = 1 /\ hist[1].drained = 0
    /\ replica[1].pending = 1

\* C8: set_tid(t) sets the thread identifier of a synthetic operation and keeps
\* its kind and both random offsets; the worker of the scale-out step applies
\* it to its own copy, so every operation it executes is the shared one
\* retargeted to its core and the shared sequence keeps the generator's tid 0.
C8_SetTidOnCopy ==
    bench = "criterion-synthetic-scaleout" =>
        /\ \A k \in 1 .. Len(ops) : ops[k] \in Templates /\ ops[k].tid = 0
        /\ \A w \in Workers : \A k \in 1 .. Submitted(w) :
            LET e == replica[w].log[k].op
            IN  /\ e.tid = Cid(w)
                /\ e.tag = ops[k].tag
                /\ e.kind = ops[k].kind
                /\ e.rnd1 = ops[k].rnd1
                /\ e.rnd2 = ops[k].rnd2

\* C8 witness: both workers executed the same shared read-write operation, each
\* with its own core id, one of them different from the generator's tid.
C8_Witness ==
    /\ bench = "criterion-synthetic-scaleout"
    /\ ops[1].kind = "ReadWrite" /\ ops[1].tid = 0
    /\ Submitted(0) >= 1 /\ replica[0].log[1].op.tid = 0
    /\ Submitted(1) >= 1 /\ replica[1].log[1].op.tid = 1
    /\ replica[1].log[1].op.kind = "ReadWrite"

(***************************************************************************)
(* Claims about the measurement harness                                    *)
(***************************************************************************)
Benchmarking == active # 0

\* C9 as stated: while a benchmark runs, the count is the last iter_custom
\* result (0 if none) plus the sum of the iter results after it.
C9_ExactSum ==
    Benchmarking => bencher.iterations = bhist.run.lastCustom + bhist.run.sumAfter

\* C9 amended: a Bencher starts with iteration count 0; iter adds what its
\* routine returned in usize arithmetic (in a build that checks overflow an
\* addition that overflows faults and leaves the count as it was, otherwise
\* the sum wraps modulo the word) and iter_custom replaces the count by what
\* its routine returned, after passing it the measurement duration; so the
\* count is the last iter_custom result (0 if none) plus the sum of the iter
\* results after it, modulo the word, and exactly that sum in a build that
\* checks overflow; each call has invoked its routine once, and
\* measurement_time is as created.
C9_BencherCount ==
    Benchmarking =>
        /\ bencher.iterations = (bhist.run.lastCustom + bhist.run.sumAfter) % Word
        /\ debug_assertions => bencher.iterations = bhist.run.lastCustom + bhist.run.sumAfter
        /\ bhist.run.calls = 0 => bencher.iterations = 0
        /\ bencher.measurement_time = bhist.run.created.measurement_time
        /\ bhist.run.passed \in {0, bencher.measurement_time}
        /\ bhist.run.routines = bhist.run.calls + (IF active < 0 THEN 1 ELSE 0)

\* C9 witness: after an iter_custom that reported 1 and a later iter that
\* returned 1, at the end of three calls, the count is 2.
C9_Witness ==
    /\ active > 0 /\ bhist.run.calls = 3
    /\ bhist.run.lastCustom = 1 /\ bhist.run.sumAfter = 1
    /\ bhist.run.passed = bencher.measurement_time
    /\ bencher.iterations = 2

\* The duration group g has by the calls made on it.
ExpectedDuration(g) ==
    IF bhist.override[g] = 0 THEN bhist.harness0 ELSE bhist.override[g]

\* C10: bench_function and bench_with_input enter the routine once, with a
\* fresh Bencher whose count is 0 and whose measurement duration is the
\* group's: the harness's duration, or the latest duration() override of that
\* group; an override changes neither the harness nor another group.
C10_FreshBencherWithGroupDuration ==
    /\ harness.duration = bhist.harness0
    /\ \A g \in 1 .. Len(groups) : groups[g].duration = ExpectedDuration(g)
    /\ active > 0 =>
        /\ bhist.run.entered = 1
        /\ bhist.run.created = [measurement_time |-> ExpectedDuration(active),
                                iterations |-> 0]
        /\ bencher.measurement_time = ExpectedDuration(active)
        /\ bhist.run.calls = 0 => bencher = bhist.run.created

\* C10 witness: after a benchmark that counted iterations, a benchmark of the
\* second group, whose duration was overridden, starts with count 0 and the
\* overridden duration while the first group and the harness keep theirs.
C10_Witness ==
    /\ bhist.dirty /\ active = 2 /\ bhist.run.calls = 0
    /\ bencher = [measurement_time |-> 2000, iterations |-> 0]
    /\ bhist.override = <<0, 2000>>
    /\ harness.duration = 5000 /\ groups[1].duration = 5000

\* C11: TestHarness::new(d) yields 500 ms for every d when the smokebench
\* feature is on and exactly d when it is off; TestHarness::default() yields
\* 500 ms when it is on and 5 s (5000 ms) when it is off.
C11_SmokeDuration ==
    bhist.made.fn # "none" =>
        harness.duration =
            IF smokebench THEN 500
            ELSE IF bhist.made.fn = "new" THEN bhist.made.d ELSE 5000

\* C11 witness: with smokebench on, new(2000) made a harness of 500 ms from
\* which a group inherited its duration.
C11_Witness ==
    /\ smokebench /\ bhist.made = [fn |-> "new", d |-> 2000]
    /\ harness.duration = 500
    /\ Len(groups) >= 1 /\ groups[1].duration = 500

(***************************************************************************)
(* Claims about the statistics                                             *)
(***************************************************************************)
AllEqual(d) == \A i, j \in 1 .. Len(d) : d[i] = d[j]

Called(fn) == result.fn = fn

\* C12: for every non-empty sequence of usize values std_deviation returns
\* a value that is non-negative, and zero iff all elements are equal.
C12_ZeroIffAllEqual ==
    (Called("std_deviation") /\ Len(data) > 0) =>
        /\ result.out.tag = "Some"
        /\ result.out.val >= 0
        /\ result.out.val = 0 <=> AllEqual(data)

\* C13: mean and std_deviation both return None for the empty sequence,
\* without faulting, and both return Some value for every non-empty sequence.
C13_NoneIffEmpty ==
    (Called("mean") \/ Called("std_deviation")) =>
        /\ Len(data) = 0 => result.out = None
        /\ Len(data) > 0 => result.out.tag = "Some"

(***************************************************************************)
(* Claims about the termination of the polling step functions              *)
(***************************************************************************)
Finished(w) ==
    /\ worker[w].pc = "done"
    /\ Submitted(w) = Len(ops)
    /\ hist[w].drained = Len(ops)

StuckOn(w, k) ==
    /\ worker[w].pc = "poll"
    /\ Submitted(w) = k
    /\ hist[w].drained = k - 1

\* C14: under fair scheduling a worker whose replica eventually answers every
\* operation eventually returns from the step function, after exactly
\* len(slice) submissions, each followed by a drained response; a worker
\* whose replica never answers some operation eventually spins on that
\* operation forever and never submits a later one.
C14_FinishesOrSpins ==
    \A w \in Workers :
        /\ replica[w].lost = 0 => <>[]Finished(w)
        /\ \A k \in 1 .. MaxNop : replica[w].lost = k => <>[]StuckOn(w, k)

\* C14 witness: one worker has finished its slice while the other, whose
\* first operation the replica never answers, is polling for it.
C14_Witness ==
    /\ bench \in PollingBenches
    /\ replica[0].lost = 0 /\ Finished(0)
    /\ replica[1].lost = 1 /\ StuckOn(1, 1)
    /\ replica[1].pending = 1 /\ replica[1].responses = 0

(***************************************************************************)
(* Claims about the log-only step function                                 *)
(***************************************************************************)
\* The batches of a list of append calls, joined latest first.
RECURSIVE JoinLatestFirst(_)
JoinLatestFirst(calls) ==
    IF calls = <<>> THEN <<>>
    ELSE JoinLatestFirst(Tail(calls)) \o Head(calls).batch

\* The batches of the append calls that returned Some, joined in call order.
RECURSIVE JoinAppended(_)
JoinAppended(calls) ==
    IF calls = <<>> THEN <<>>
    ELSE (IF Head(calls).some THEN Head(calls).batch ELSE <<>>) \o JoinAppended(Tail(calls))

\* The operations worker w has on the log, in log order.
RECURSIVE OnLog(_, _)
OnLog(l, w) ==
    IF l = <<>> THEN <<>>
    ELSE (IF Head(l).by = w THEN <<Head(l).op>> ELSE <<>>) \o OnLog(Tail(l), w)

Occurrences(s, x) == Cardinality({k \in 1 .. Len(s) : s[k] = x})

Appending == batch_size > 0

\* C15 as stated: after the step function returned, the log holds every
\* operation of the worker's slice exactly once.
C15_LogHoldsWholeSlice ==
    Appending =>
        \A w \in Workers : appender[w].pc = "done" =>
            \A k \in 1 .. Len(slice) : Occurrences(OnLog(log, w), slice[k]) = 1

\* C15 amended: the step function hands every operation of the slice to
\* log.append exactly once, cutting from the end of the slice, in batches of
\* at most batch_size of which only the last handed over (the head of the
\* slice) may be shorter; it drops append's result, so for any interleaving
\* the log holds of each worker exactly the batches whose append returned
\* Some, each once and in order, and the whole slice when all of them did.
C15_EachBatchHandedOnce ==
    Appending =>
        \A w \in Workers :
            LET calls == appender[w].calls
                n == Len(calls)
            IN  /\ JoinLatestFirst(calls) = SubSeq(slice, appender[w].rest + 1, Len(slice))
                /\ \A c \in 1 .. n :
                        /\ Len(calls[c].batch) \in 1 .. batch_size
                        /\ Len(calls[c].batch) < batch_size =>
                                c = n /\ appender[w].rest = 0
                /\ OnLog(log, w) = JoinAppended(calls)
                /\ appender[w].pc = "done" =>
                        /\ appender[w].rest = 0
                        /\ (\A c \in 1 .. n : calls[c].some) =>
                                \A k \in 1 .. Len(slice) :
                                    Occurrences(OnLog(log, w), slice[k]) = 1

\* C15 witness: both workers returned after a full batch and a short one,
\* worker 0 with both on the log and worker 1 with its short batch refused,
\* the batches of the two interleaved on the log.
C15_Witness ==
    /\ Appending /\ Len(slice) = MaxLogNop
    /\ appender[0].pc = "done" /\ appender[1].pc = "done"
    /\ Len(appender[0].calls) = 2 /\ \A c \in 1 .. 2 : appender[0].calls[c].some
    /\ Len(appender[1].calls) = 2 /\ ~appender[1].calls[2].some
    /\ Len(appender[1].calls[1].batch) = BATCH_SIZE
    /\ Len(appender[1].calls[2].batch) = MaxLogNop - BATCH_SIZE
    /\ log[1].by = 1 /\ log[BATCH_SIZE + 1].by = 0 /\ log[Len(log)].by = 0

(***************************************************************************)
(* Claims about the cache lines an operation touches                       *)
(***************************************************************************)
HotCount(t) == Cardinality({k \in 1 .. Len(t) : t[k] < ads.hot_reads})

ColdCount(t) ==
    Cardinality({k \in 1 .. Len(t) : t[k] >= ads.hot_reads /\ t[k] < ads.n})

Touches(t, i) == \E k \in 1 .. Len(t) : t[k] = i

\* A call on a validly constructed instance has returned.
CallReturned ==
    /\ ArgsOK
    /\ adsPc = "ready" /\ adsPc' = "ready"
    /\ ncalls' = ncalls + 1

\* C16: read performs hot_reads accesses to hot lines and cold_reads accesses
\* to cold lines and changes no cell; write performs hot_writes hot and
\* cold_writes cold accesses, sets the cells it touches to tid and changes no
\* other cell.
C16_DocumentedAccessCounts ==
    [][CallReturned =>
        /\ call'.op = "read" =>
            /\ HotCount(touched') = ads.hot_reads
            /\ ColdCount(touched') = ads.cold_reads
            /\ ads'.storage = ads.storage
        /\ call'.op = "write" =>
            /\ HotCount(touched') = ads.hot_writes
            /\ ColdCount(touched') = ads.cold_writes
            /\ \A i \in 0 .. ads.n - 1 :
                    ads'.storage[i] = IF Touches(touched', i) THEN call'.tid
                                      ELSE ads.storage[i]]_vars

====
